---- MODULE Spec2Model ----
(***************************************************************************)
(* A model of progressbar.py: the widgets, the ProgressBar tracker and the *)
(* MultiStageProgressBar composite.                                        *)
(*                                                                         *)
(* Python strings are sequences of one-character strings.  An optional     *)
(* argument or attribute (None or a value) is a sequence of length <= 1.   *)
(* A float percentage currval*100.0/maxval is the exact fraction           *)
(* <<currval*100, maxval>>; two fractions are compared by cross            *)
(* multiplication.  An exception ends the call where it is raised and      *)
(* keeps every assignment made before it.                                  *)
(***************************************************************************)
EXTENDS Integers, Sequences, FiniteSets, TLC

VARIABLES
    pbar,       \* the ProgressBar object (its attributes)
    mpbar,      \* the MultiStageProgressBar object (its attributes, _pbars included)
    fd,         \* the output sink: the lines written so far, [len, term]
    now,        \* the value time.time() returns
    sigwinch,   \* the installed SIGWINCH handler: "SIG_DFL", "pbar" or "mpbar"
    call        \* the last public call: [op, stage, value, ok]

vars == <<pbar, mpbar, fd, now, sigwinch, call>>

\* ------------------------------------------------------------------ bounds

MaxVal == 2
MaxWrites == 3
MaxTime == 1
MaxLines == 4
MaxStages == 4

\* The width a tracker falls back to without a terminal.
DefaultWidth == 79

\* The widths given as term_width.
TermWidths == {10, 31}

\* The widths the terminal reports when a tracker is constructed, and those
\* it reports on SIGWINCH.
AttachedWidths == {31}
ResizeWidths == {10}

\* ------------------------------------------------------------------ Python values

None == <<>>
Some(v) == <<v>>
Val(o) == o[1]

Fraction(n, d) == <<n, d>>
FracEq(p, q) == p[1] * q[2] = q[1] * p[2]

\* int(n/d) for d > 0: truncation towards zero.
int(n, d) == IF n >= 0 THEN n \div d ELSE -((-n) \div d)

Spaces(n) == [i \in 1..n |-> " "]
ljust(s, width) == s \o Spaces(width - Len(s))
rjust(s, width) == Spaces(width - Len(s)) \o s

\* s * n
repeat(s, n) == [i \in 1..(n * Len(s)) |-> s[((i - 1) % Len(s)) + 1]]

RECURSIVE join(_)
join(ss) == IF ss = <<>> THEN <<>> ELSE Head(ss) \o join(Tail(ss))

Digit(d) == <<"0", "1", "2", "3", "4", "5", "6", "7", "8", "9">>[d + 1]

\* '%d' % n
RECURSIVE fmt_d(_)
fmt_d(n) ==
    IF n < 0 THEN <<"-">> \o fmt_d(-n)
    ELSE IF n < 10 THEN <<Digit(n)>>
    ELSE fmt_d(n \div 10) \o <<Digit(n % 10)>>

\* '%02d' % n, for 0 <= n < 100
fmt_02d(n) == <<Digit(n \div 10), Digit(n % 10)>>

\* ------------------------------------------------------------------ widgets

Literal(s) ==
    [type |-> "str", text |-> s, marker |-> <<>>, left |-> <<>>, right |-> <<>>]
Dynamic(t) ==
    [type |-> t, text |-> <<>>, marker |-> <<>>, left |-> <<>>, right |-> <<>>]
HFill(t, m, l, r) ==
    [type |-> t, text |-> <<>>, marker |-> m, left |-> l, right |-> r]

Percentage == Dynamic("Percentage")
Counter == Dynamic("Counter")
ETA == Dynamic("ETA")
Bar == HFill("Bar", <<"#">>, <<"|">>, <<"|">>)
ReverseBar == HFill("ReverseBar", <<"#">>, <<"|">>, <<"|">>)

default_widgets ==
    <<Percentage, Literal(<<" ">>), Bar, Literal(<<" ">>), Counter,
      Literal(<<" ">>), ETA>>

percentage(pb) == Fraction(pb.currval * 100, pb.maxval)

\* time.strftime('%H:%M:%S', time.gmtime(seconds))
format_time(seconds) ==
    fmt_02d((seconds \div 3600) % 24) \o <<":">> \o fmt_02d((seconds \div 60) % 60)
        \o <<":">> \o fmt_02d(seconds % 60)

ETA_update(pb) ==
    IF pb.currval = 0
    THEN <<"E", "T", "A", ":", " ", " ", " ", " ",
           "-", "-", ":", "-", "-", ":", "-", "-">>
    ELSE IF pb.finished
    THEN <<"T", "i", "m", "e", ":", " ">> \o format_time(pb.seconds_elapsed)
    ELSE LET elapsed == pb.seconds_elapsed
             eta == (elapsed * pb.maxval) \div pb.currval - elapsed
         IN  <<"E", "T", "A", ":", " ", " ", " ", " ">> \o format_time(eta)

\* '%3d%%' % pbar.percentage()
Percentage_update(pb) ==
    rjust(fmt_d(int(percentage(pb)[1], percentage(pb)[2])), 3) \o <<"%">>

\* "%d / %d" % (currval, maxval)
Counter_update(pb) ==
    fmt_d(pb.currval) \o <<" ", "/", " ">> \o fmt_d(pb.maxval)

\* Bar.update and ReverseBar.update: the marker is a string.
Bar_update(w, pb, width) ==
    LET percent == percentage(pb)
        cwidth == width - Len(w.left) - Len(w.right)
        marked_width == int(percent[1] * cwidth, percent[2] * 100)
        marks == repeat(w.marker, marked_width)
    IN  w.left
          \o (IF w.type = "Bar" THEN ljust(marks, cwidth) ELSE rjust(marks, cwidth))
          \o w.right

IsHFill(w) == w.type \in {"Bar", "ReverseBar"}

\* w.update(pbar) of a widget that is not a fill widget, or the string itself.
Widget_update(w, pb) ==
    CASE w.type = "str" -> w.text
      [] w.type = "Percentage" -> Percentage_update(pb)
      [] w.type = "Counter" -> Counter_update(pb)
      [] w.type = "ETA" -> ETA_update(pb)

RECURSIVE SumLen(_)
SumLen(ss) == IF ss = <<>> THEN 0 ELSE Len(Head(ss)) + SumLen(Tail(ss))

\* The width of the strings and of the widgets that are not fill widgets.
currwidth(pb) ==
    SumLen([i \in 1..Len(pb.widgets) |->
              IF IsHFill(pb.widgets[i]) THEN <<>>
              ELSE Widget_update(pb.widgets[i], pb)])

num_hfill(pb) == Cardinality({i \in 1..Len(pb.widgets) : IsHFill(pb.widgets[i])})

\* The width each fill widget is given: Python 2's / on integers floors.
hfill_width(pb) == (pb.term_width - currwidth(pb)) \div num_hfill(pb)

_format_widgets(pb) ==
    [i \in 1..Len(pb.widgets) |->
        IF IsHFill(pb.widgets[i])
        THEN Bar_update(pb.widgets[i], pb, hfill_width(pb))
        ELSE Widget_update(pb.widgets[i], pb)]

\* _format_line without the padding to term_width.
_format_line_unpadded(pb) == join(_format_widgets(pb))

_format_line(pb) == ljust(join(_format_widgets(pb)), pb.term_width)

\* ------------------------------------------------------------------ ProgressBar

\* ProgressBar.__init__ with an explicit term_width, or after the terminal
\* answered (signal_set = TRUE) or failed (term_width = DefaultWidth).
ProgressBar(maxval, widgets, term_width, signal_set) ==
    [maxval |-> maxval, widgets |-> widgets, term_width |-> term_width,
     signal_set |-> signal_set, currval |-> 0, finished |-> FALSE,
     prev_percentage |-> Fraction(-1, 1), start_time |-> None,
     seconds_elapsed |-> 0]

_need_update(pb) == ~FracEq(percentage(pb), pb.prev_percentage)

\* _update that never sets finished.
_update_unfinished(pb, value, t) ==
    LET v == IF value = None THEN pb.currval + 1 ELSE Val(value) IN
    IF ~(0 <= v) \/ ~(v <= pb.maxval)
    THEN [ok |-> FALSE, pbar |-> pb]
    ELSE LET p1 == [pb EXCEPT !.currval = v] IN
         IF ~_need_update(p1) \/ p1.finished
         THEN [ok |-> TRUE, pbar |-> p1]
         ELSE LET st == IF p1.start_time = None THEN Some(t) ELSE p1.start_time
              IN  [ok |-> TRUE,
                   pbar |-> [p1 EXCEPT !.start_time = st,
                                      !.seconds_elapsed = t - Val(st),
                                      !.prev_percentage = percentage(p1)]]

\* _update that assigns currval before it checks the value.
_update_assign_first(pb, value, t) ==
    LET v == IF value = None THEN pb.currval + 1 ELSE Val(value) IN
    IF ~(0 <= v) \/ ~(v <= pb.maxval)
    THEN [ok |-> FALSE, pbar |-> [pb EXCEPT !.currval = v]]
    ELSE LET p1 == [pb EXCEPT !.currval = v] IN
         IF ~_need_update(p1) \/ p1.finished
         THEN [ok |-> TRUE, pbar |-> p1]
         ELSE LET st == IF p1.start_time = None THEN Some(t) ELSE p1.start_time
              IN  [ok |-> TRUE,
                   pbar |-> [p1 EXCEPT !.start_time = st,
                                      !.seconds_elapsed = t - Val(st),
                                      !.prev_percentage = percentage(p1),
                                      !.finished = (p1.currval = p1.maxval)]]

\* _update without the early return of a finished tracker.
_update_refinish(pb, value, t) ==
    LET v == IF value = None THEN pb.currval + 1 ELSE Val(value) IN
    IF ~(0 <= v) \/ ~(v <= pb.maxval)
    THEN [ok |-> FALSE, pbar |-> pb]
    ELSE LET p1 == [pb EXCEPT !.currval = v] IN
         IF ~_need_update(p1)
         THEN [ok |-> TRUE, pbar |-> p1]
         ELSE LET st == IF p1.start_time = None THEN Some(t) ELSE p1.start_time
              IN  [ok |-> TRUE,
                   pbar |-> [p1 EXCEPT !.start_time = st,
                                      !.seconds_elapsed = t - Val(st),
                                      !.prev_percentage = percentage(p1),
                                      !.finished = (p1.currval = p1.maxval)]]

\* ProgressBar._update at clock value t: [ok, pbar], ok = FALSE when an
\* assertion fails.
_update(pb, value, t) ==
    LET v == IF value = None THEN pb.currval + 1 ELSE Val(value) IN
    IF ~(0 <= v) \/ ~(v <= pb.maxval)
    THEN [ok |-> FALSE, pbar |-> pb]
    ELSE LET p1 == [pb EXCEPT !.currval = v] IN
         IF ~_need_update(p1) \/ p1.finished
         THEN [ok |-> TRUE, pbar |-> p1]
         ELSE LET st == IF p1.start_time = None THEN Some(t) ELSE p1.start_time
              IN  [ok |-> TRUE,
                   pbar |-> [p1 EXCEPT !.start_time = st,
                                      !.seconds_elapsed = t - Val(st),
                                      !.prev_percentage = percentage(p1),
                                      !.finished = (p1.currval = p1.maxval)]]

Line(text, term) == [len |-> Len(text), term |-> term]

\* update that ends every line with a carriage return.
update_write_cr(pb) == Line(_format_line(pb), "\r")

\* What ProgressBar.update writes for the tracker pb.
update_write(pb) == Line(_format_line(pb), IF pb.finished THEN "\n" ELSE "\r")

Call(op, stage, value, ok) == [op |-> op, stage |-> stage, value |-> value, ok |-> ok]

\* ProgressBar.update(value), value = None or Some(v).
update_as(op, pb, value) ==
    LET r == _update(pb, value, now) IN
    /\ pbar' = r.pbar
    /\ fd' = IF r.ok THEN Append(fd, update_write(r.pbar)) ELSE fd
    /\ call' = Call(op, None, value, r.ok)

update(value) ==
    /\ Len(fd) < MaxWrites
    /\ update_as("update", pbar, value)
    /\ UNCHANGED <<mpbar, now, sigwinch>>

start ==
    /\ Len(fd) < MaxWrites
    /\ update_as("start", pbar, Some(0))
    /\ UNCHANGED <<mpbar, now, sigwinch>>

finish ==
    /\ Len(fd) < MaxWrites
    /\ IF ~pbar.finished
       THEN update_as("finish", [pbar EXCEPT !.finished = TRUE], Some(pbar.maxval))
       ELSE /\ call' = Call("finish", None, None, TRUE)
            /\ UNCHANGED <<pbar, fd>>
    /\ sigwinch' = IF pbar.signal_set THEN "SIG_DFL" ELSE sigwinch
    /\ UNCHANGED <<mpbar, now>>

\* SIGWINCH while ProgressBar.handle_resize is the handler.
handle_resize(w) ==
    /\ sigwinch = "pbar"
    /\ pbar' = [pbar EXCEPT !.term_width = w]
    /\ call' = Call("handle_resize", None, Some(w), TRUE)
    /\ UNCHANGED <<mpbar, fd, now, sigwinch>>

\* The clock advances.
Tick ==
    /\ now < MaxTime
    /\ now' = now + 1
    /\ UNCHANGED <<pbar, mpbar, fd, sigwinch, call>>

\* The widget lists a ProgressBar is constructed with.
WidgetLists ==
    { <<Percentage>>,
      <<Literal(<<"T", ":">>), Percentage, Literal(<<" ">>), Bar>>,
      <<Bar, Counter, HFill("Bar", <<"0">>, <<"[">>, <<"]">>), ReverseBar>>,
      default_widgets }

Values == {None} \cup {Some(v) : v \in -1..(MaxVal + 1)}

NoMultiStage == [num_stages |-> 0]

Init ==
    /\ \E maxval \in 1..MaxVal, widgets \in WidgetLists :
         \/ \E w \in TermWidths :
              /\ pbar = ProgressBar(maxval, widgets, w, FALSE)
              /\ sigwinch = "SIG_DFL"
         \/ \E w \in AttachedWidths :
              /\ pbar = ProgressBar(maxval, widgets, w, TRUE)
              /\ sigwinch = "pbar"
         \/ /\ pbar = ProgressBar(maxval, widgets, DefaultWidth, FALSE)
            /\ sigwinch = "SIG_DFL"
    /\ mpbar = NoMultiStage
    /\ fd = <<>>
    /\ now = 0
    /\ call = Call("__init__", None, None, TRUE)

Next ==
    \/ \E value \in Values : update(value)
    \/ start
    \/ finish
    \/ \E w \in ResizeWidths : handle_resize(w)
    \/ Tick

Spec == Init /\ [][Next]_vars

\* ------------------------------------------------------------------ ProgressBar: properties

\* The value an update(value) call asks for.
Requested(pb, value) == IF value = None THEN pb.currval + 1 ELSE Val(value)

AllCR(lines) == \A k \in 1..Len(lines) : lines[k].term = "\r"

\* C1 as stated: after every successful update(v), percentage() is v*100/maxval
\* and finished is true exactly when v = maxval.
C1_UpdatePostcondition ==
    (call.op = "update" /\ call.ok /\ call.value # None)
        => /\ FracEq(percentage(pbar), Fraction(Val(call.value) * 100, pbar.maxval))
           /\ pbar.finished <=> (Val(call.value) = pbar.maxval)

\* C1, amended: every successful update(v) leaves percentage() = v*100/maxval;
\* on a tracker that was not finished it leaves finished true exactly when
\* v = maxval, and on a finished tracker it leaves finished true.
C1_UpdatePostconditionUnfinished ==
    [][\A v \in 0..MaxVal :
          (call'.value = Some(v) /\ update(Some(v)) /\ call'.ok)
              => /\ FracEq(percentage(pbar'), Fraction(v * 100, pbar.maxval))
                 /\ pbar'.currval = v
                 /\ ~pbar.finished => (pbar'.finished <=> (v = pbar.maxval))
                 /\ pbar.finished => pbar'.finished]_vars

C1_Witness ==
    /\ call.op = "update" /\ call.ok
    /\ call.value = Some(pbar.maxval)
    /\ pbar.maxval > 1
    /\ pbar.currval = pbar.maxval /\ pbar.finished
    /\ \E k \in 1..Len(fd) : fd[k].term = "\r"

\* C2: update with a value below 0 or above maxval (update() at
\* currval = maxval included) fails, changes no attribute of the tracker and
\* writes nothing.
C2_InvalidUpdateNoEffect ==
    [][\A value \in Values :
          (call'.value = value /\ update(value)
             /\ (Requested(pbar, value) < 0 \/ Requested(pbar, value) > pbar.maxval))
              => /\ ~call'.ok
                 /\ pbar' = pbar
                 /\ fd' = fd]_vars

C2_Witness ==
    /\ call.op = "update" /\ ~call.ok /\ call.value = None
    /\ pbar.currval = pbar.maxval
    /\ pbar.start_time # None
    /\ fd # <<>>

\* C3 as stated: an update that leaves the percentage equal to prev_percentage
\* and does not turn the tracker finished writes no line.
C3_Debounce ==
    [][\A value \in Values :
          (call'.value = value /\ update(value) /\ call'.ok
             /\ FracEq(percentage(pbar'), pbar.prev_percentage)
             /\ ~(pbar'.finished /\ ~pbar.finished))
              => fd' = fd]_vars

\* C7: a successful update(v) of a tracker that is not finished (as in a run of
\* updates with increasing values from construction) finds only lines ended
\* by a carriage return, writes one line, ended by a newline exactly when
\* v = maxval, and below maxval leaves the tracker not finished.
C7_TerminatorOrder ==
    [][\A v \in 0..MaxVal :
          (call'.value = Some(v) /\ update(Some(v)) /\ call'.ok /\ ~pbar.finished)
              => /\ AllCR(fd)
                 /\ Len(fd') = Len(fd) + 1
                 /\ SubSeq(fd', 1, Len(fd)) = fd
                 /\ fd'[Len(fd')].term = (IF v = pbar.maxval THEN "\n" ELSE "\r")
                 /\ (v < pbar.maxval) => ~pbar'.finished]_vars

C7_Witness ==
    /\ call.op = "update" /\ call.ok
    /\ pbar.maxval = MaxVal /\ pbar.currval = pbar.maxval
    /\ Len(fd) = MaxVal
    /\ AllCR(SubSeq(fd, 1, Len(fd) - 1))
    /\ fd[Len(fd)].term = "\n"

\* The fill widgets of pb and what the layout leaves each of them.
HFills(pb) == {i \in 1..Len(pb.widgets) : IsHFill(pb.widgets[i])}

LayoutFits(pb) ==
    IF HFills(pb) = {} THEN currwidth(pb) <= pb.term_width
    ELSE \A i \in HFills(pb) :
            /\ Len(pb.widgets[i].marker) = 1
            /\ hfill_width(pb) >= Len(pb.widgets[i].left) + Len(pb.widgets[i].right)

\* C8: when every fill widget's share holds its two borders (or, without fill
\* widgets, the fixed content fits), the rendered line is exactly term_width
\* characters long.
C8_LayoutExact ==
    LayoutFits(pbar) => Len(_format_line(pbar)) = pbar.term_width

\* Three fill widgets share a width that 3 does not divide, and the line was written.
C8_Witness ==
    /\ LayoutFits(pbar)
    /\ Cardinality(HFills(pbar)) = 3
    /\ (pbar.term_width - currwidth(pbar)) % 3 # 0
    /\ call.op = "update" /\ call.ok
    /\ fd[Len(fd)].len = pbar.term_width

\* C17 as stated: finish() on a tracker that is not finished leaves what
\* update(maxval) leaves: the same currval, finished and prev_percentage,
\* start_time set or unset alike, and one line written, ended by a newline.
C17_FinishAsUpdate ==
    [][(~pbar.finished /\ call'.op = "finish" /\ finish)
         => LET u == _update(pbar, Some(pbar.maxval), now).pbar IN
            /\ pbar'.currval = u.currval
            /\ pbar'.finished = u.finished
            /\ pbar'.prev_percentage = u.prev_percentage
            /\ (pbar'.start_time = None) <=> (u.start_time = None)
            /\ Len(fd') = Len(fd) + 1
            /\ fd'[Len(fd')].term = "\n"]_vars

\* ------------------------------------------------------------------ ProgressBar: SIGWINCH during a render pass

\* The handler of a signal runs between two bytecodes of the main thread, so
\* handle_resize can run between two reads of self.term_width of one pass:
\* _format_widgets reads it once for every fill widget (line 274), and
\* _format_line once more for the padding (line 278).

\* The fill widget at index i is the HFillRank-th fill widget of the list.
HFillRank(pb, i) == Cardinality({j \in 1..i : IsHFill(pb.widgets[j])})

\* The values the reads of term_width return when the width becomes w before
\* the j-th read of the pass.
Reads(pb, w, j) == [r \in 1..(num_hfill(pb) + 1) |-> IF r < j THEN pb.term_width ELSE w]

_format_widgets_reads(pb, reads) ==
    [i \in 1..Len(pb.widgets) |->
        IF IsHFill(pb.widgets[i])
        THEN Bar_update(pb.widgets[i], pb,
                        (reads[HFillRank(pb, i)] - currwidth(pb)) \div num_hfill(pb))
        ELSE Widget_update(pb.widgets[i], pb)]

_format_line_reads(pb, reads) ==
    ljust(join(_format_widgets_reads(pb, reads)), reads[num_hfill(pb) + 1])

\* ProgressBar.update(value) with SIGWINCH delivered during the render pass,
\* before its j-th read of term_width.
update_resized(value, w, j) ==
    /\ sigwinch = "pbar"
    /\ Len(fd) < MaxWrites
    /\ LET r == _update(pbar, value, now) IN
       /\ r.ok
       /\ j \in 1..(num_hfill(pbar) + 1)
       /\ pbar' = [r.pbar EXCEPT !.term_width = w]
       /\ fd' = Append(fd, Line(_format_line_reads(r.pbar, Reads(r.pbar, w, j)),
                                IF r.pbar.finished THEN "\n" ELSE "\r"))
       /\ call' = Call("update_resized", Some(j), value, TRUE)
    /\ UNCHANGED <<mpbar, now, sigwinch>>

ResizeWidgetLists == WidgetLists \cup {<<Bar, Literal(<<" ">>), ReverseBar>>}

InitResize ==
    /\ \E maxval \in 1..MaxVal, widgets \in ResizeWidgetLists, w \in AttachedWidths :
         pbar = ProgressBar(maxval, widgets, w, TRUE)
    /\ sigwinch = "pbar"
    /\ mpbar = NoMultiStage
    /\ fd = <<>>
    /\ now = 0
    /\ call = Call("__init__", None, None, TRUE)

NextResize ==
    \/ \E value \in Values : update(value)
    \/ \E value \in Values, w \in ResizeWidths, j \in 1..(num_hfill(pbar) + 1) :
         update_resized(value, w, j)
    \/ start
    \/ finish
    \/ \E w \in ResizeWidths : handle_resize(w)
    \/ Tick

SpecResize == InitResize /\ [][NextResize]_vars

\* C18 as stated: when the layout fits the width before and the width after
\* the resize, a line rendered while the resize arrives is as long as the
\* width before it or as the width after it.
C18_NoTornFrame ==
    [][(call'.op = "update_resized" /\ Len(fd') = Len(fd) + 1
          /\ LayoutFits([pbar' EXCEPT !.term_width = pbar.term_width])
          /\ LayoutFits(pbar'))
         => fd'[Len(fd')].len \in {pbar.term_width, pbar'.term_width}]_vars

\* What holds of it: without fill widgets, or with one, the line is as long
\* as the width before or after the resize.
OneFillNoTornFrame ==
    [][(call'.op = "update_resized" /\ Len(fd') = Len(fd) + 1 /\ num_hfill(pbar) <= 1
          /\ LayoutFits([pbar' EXCEPT !.term_width = pbar.term_width])
          /\ LayoutFits(pbar'))
         => fd'[Len(fd')].len \in {pbar.term_width, pbar'.term_width}]_vars

\* C12: once finished is true, no start, update (valid or failing) or finish
\* call makes it false again.
C12_FinishedMonotonic ==
    [][pbar.finished => pbar'.finished]_vars

\* A valid update(0) was made on a finished tracker, which is still finished.
C12_Witness ==
    /\ call.op = "update" /\ call.ok /\ call.value = Some(0)
    /\ pbar.currval = 0
    /\ pbar.finished

\* ------------------------------------------------------------------ MultiStageProgressBar

\* The titles of stages 1.. get a space in front, their widths lose a column.
nested_titles(titles) ==
    [i \in 1..Len(titles) |-> IF i = 1 THEN titles[i] ELSE <<" ">> \o titles[i]]
nested_widths(widths) ==
    [i \in 1..Len(widths) |-> IF i = 1 THEN widths[i] ELSE widths[i] - 1]

RECURSIVE sum(_)
sum(xs) == IF xs = <<>> THEN 0 ELSE Head(xs) + sum(Tail(xs))

\* [int(term_width*st_w) for st_w in term_widths], then the remainder goes to
\* the last stage.
partition(term_width, term_widths) ==
    LET floors == [i \in 1..Len(term_widths) |->
                     int(term_width * term_widths[i][1], term_widths[i][2])]
    IN  [floors EXCEPT ![Len(floors)] = @ + (term_width - sum(floors))]

\* ProgressBar(maxval=x, title=t, term_width=w) with the default widgets.
stage_bar(maxval, title, width) ==
    ProgressBar(maxval,
                IF title # <<>> THEN <<Literal(title)>> \o default_widgets
                ELSE default_widgets,
                width, FALSE)

\* MultiStageProgressBar.__init__: term_width is what the terminal answered,
\* with signal_set = Some(TRUE), or DefaultWidth with the attribute never set.
MultiStageProgressBar(maxvals, term_widths, cascade, term_width, signal_set) ==
    LET n == Len(maxvals)
        titles == nested_titles([i \in 1..n |-> <<>>])
        fractions == IF term_widths # None THEN Val(term_widths)
                     ELSE [i \in 1..n |-> Fraction(1, n)]
        stage_widths == nested_widths(partition(term_width, fractions))
    IN  [maxvals |-> maxvals, num_stages |-> n, finished |-> FALSE,
         titles |-> titles, term_width |-> term_width, signal_set |-> signal_set,
         stage_widths |-> stage_widths,
         _pbars |-> [i \in 1..n |-> stage_bar(maxvals[i], titles[i], stage_widths[i])],
         cascade |-> cascade]

\* reset_loop whose constructor accepts any maxval.
RECURSIVE reset_loop_unchecked(_, _)
reset_loop_unchecked(m, to_reset) ==
    IF to_reset = <<>> THEN [ok |-> TRUE, m |-> m]
    ELSE LET st == Head(to_reset) IN
         reset_loop_unchecked(
            [m EXCEPT !._pbars[st + 1] =
                stage_bar(m.maxvals[st + 1], m.titles[st + 1], m.stage_widths[st + 1])],
            Tail(to_reset))

\* Stage st (0-based) is replaced by a fresh tracker; the constructor's
\* assert maxval > 0 may fail.
RECURSIVE reset_loop(_, _)
reset_loop(m, to_reset) ==
    IF to_reset = <<>> THEN [ok |-> TRUE, m |-> m]
    ELSE LET st == Head(to_reset) IN
         IF ~(m.maxvals[st + 1] > 0) THEN [ok |-> FALSE, m |-> m]
         ELSE reset_loop(
                [m EXCEPT !._pbars[st + 1] =
                    stage_bar(m.maxvals[st + 1], m.titles[st + 1], m.stage_widths[st + 1])],
                Tail(to_reset))

range(a, b) == [i \in 1..(b - a) |-> a + i - 1]

\* reset_stage that keeps the tracker of the stage itself.
reset_stage_later_only(m, stage, maxval, title) ==
    LET m1 == IF maxval # None /\ Val(maxval) # 0
              THEN [m EXCEPT !.maxvals[stage + 1] = Val(maxval)] ELSE m
        m2 == IF title # None /\ Val(title) # <<>>
              THEN [m1 EXCEPT !.titles[stage + 1] = Val(title)] ELSE m1
    IN  reset_loop(m2, IF m2.cascade THEN range(stage + 1, m2.num_stages) ELSE <<>>)

\* reset_stage that replaces the tracker of every stage.
reset_stage_from_zero(m, stage, maxval, title) ==
    LET m1 == IF maxval # None /\ Val(maxval) # 0
              THEN [m EXCEPT !.maxvals[stage + 1] = Val(maxval)] ELSE m
        m2 == IF title # None /\ Val(title) # <<>>
              THEN [m1 EXCEPT !.titles[stage + 1] = Val(title)] ELSE m1
    IN  reset_loop(m2, range(0, m2.num_stages))

\* MultiStageProgressBar.reset_stage: [ok, m].
reset_stage(m, stage, maxval, title) ==
    LET m1 == IF maxval # None /\ Val(maxval) # 0
              THEN [m EXCEPT !.maxvals[stage + 1] = Val(maxval)] ELSE m
        m2 == IF title # None /\ Val(title) # <<>>
              THEN [m1 EXCEPT !.titles[stage + 1] = Val(title)] ELSE m1
        to_reset == IF m2.cascade THEN range(stage, m2.num_stages) ELSE <<stage>>
    IN  reset_loop(m2, <<stage>> \o to_reset)

\* for pbar in self._pbars: pbar._update(v), v given per sub-bar and in range.
update_all(m, values, t) ==
    [m EXCEPT !._pbars = [i \in 1..m.num_stages |-> _update(m._pbars[i], Some(values[i]), t).pbar]]

\* print_bars that ends every line with a carriage return.
print_bars_cr(m) ==
    Line(join([i \in 1..m.num_stages |-> _format_line(m._pbars[i])]), "\r")

\* What MultiStageProgressBar.print_bars writes.
print_bars(m) ==
    Line(join([i \in 1..m.num_stages |-> _format_line(m._pbars[i])]),
         IF m.finished THEN "\n" ELSE "\r")

\* The values the sub-bars are forced to: by the final update, by finish, by start.
pbar_maxval(m) == [i \in 1..m.num_stages |-> m._pbars[i].maxval]
pbar_below_maxval(m) == [i \in 1..m.num_stages |-> m._pbars[i].maxval - 1]
pbar_zero(m) == [i \in 1..m.num_stages |-> 0]

\* update that resets a finished stage and does not advance the stage before it.
ms_update_no_carry(m, stage, t) ==
    LET s == IF stage = None THEN m.num_stages - 1 ELSE Val(stage)
        r == _update(m._pbars[s + 1], None, t)
        m1 == [m EXCEPT !._pbars[s + 1] = r.pbar]
    IN  IF ~r.ok THEN [ok |-> FALSE, m |-> m, out |-> <<>>, advances |-> 1]
        ELSE IF r.pbar.finished
        THEN IF 0 < s /\ s < m.num_stages
             THEN LET rs == reset_stage(m1, s, None, None) IN
                  [ok |-> rs.ok, m |-> rs.m,
                   out |-> IF rs.ok THEN <<print_bars(rs.m)>> ELSE <<>>, advances |-> 1]
             ELSE LET m2 == update_all([m1 EXCEPT !.finished = TRUE], pbar_maxval(m1), t)
                  IN  [ok |-> TRUE, m |-> m2, out |-> <<print_bars(m2)>>, advances |-> 1]
        ELSE [ok |-> TRUE, m |-> m1, out |-> <<print_bars(m1)>>, advances |-> 1]

\* MultiStageProgressBar.update(stage): [ok, m, out, advances], out the lines
\* written, advances the number of (nested) calls of update.
\* The argument val is never read.
RECURSIVE ms_update(_, _, _)
ms_update(m, stage, t) ==
    LET s == IF stage = None THEN m.num_stages - 1 ELSE Val(stage)
        r == _update(m._pbars[s + 1], None, t)
        m1 == [m EXCEPT !._pbars[s + 1] = r.pbar]
    IN  IF ~r.ok THEN [ok |-> FALSE, m |-> m, out |-> <<>>, advances |-> 1]
        ELSE IF r.pbar.finished
        THEN IF 0 < s /\ s < m.num_stages
             THEN LET rs == reset_stage(m1, s, None, None) IN
                  IF ~rs.ok THEN [ok |-> FALSE, m |-> rs.m, out |-> <<>>, advances |-> 1]
                  ELSE [ms_update(rs.m, Some(s - 1), t) EXCEPT !.advances = @ + 1]
             ELSE LET m2 == update_all([m1 EXCEPT !.finished = TRUE], pbar_maxval(m1), t)
                  IN  [ok |-> TRUE, m |-> m2, out |-> <<print_bars(m2)>>, advances |-> 1]
        ELSE [ok |-> TRUE, m |-> m1, out |-> <<print_bars(m1)>>, advances |-> 1]

Stages == IF mpbar.num_stages = 0 THEN {} ELSE 0..(mpbar.num_stages - 1)

MultiStage_update(stage) ==
    /\ Len(fd) < MaxLines
    /\ LET r == ms_update(mpbar, stage, now) IN
       /\ mpbar' = r.m
       /\ fd' = fd \o r.out
       /\ call' = Call("update", stage, None, r.ok)
    /\ UNCHANGED <<pbar, now, sigwinch>>

MultiStage_start ==
    /\ mpbar' = update_all(mpbar, pbar_zero(mpbar), now)
    /\ call' = Call("start", None, None, TRUE)
    /\ UNCHANGED <<pbar, fd, now, sigwinch>>

MultiStage_reset_stage(stage, maxval, title) ==
    /\ LET r == reset_stage(mpbar, stage, maxval, title) IN
       /\ mpbar' = r.m
       /\ call' = Call("reset_stage", Some(stage), maxval, r.ok)
    /\ UNCHANGED <<pbar, fd, now, sigwinch>>

\* MultiStageProgressBar.finish: reading the attribute signal_set fails when
\* __init__ never set it.
MultiStage_finish ==
    /\ Len(fd) < MaxLines
    /\ IF mpbar.finished
       THEN /\ call' = Call("finish", None, None, TRUE)
            /\ UNCHANGED <<mpbar, fd, sigwinch>>
       ELSE LET m1 == update_all([mpbar EXCEPT !.finished = TRUE], pbar_below_maxval(mpbar), now)
                r == ms_update(m1, None, now)
            IN  IF m1.signal_set = None
                THEN /\ mpbar' = m1
                     /\ call' = Call("finish", None, None, FALSE)
                     /\ UNCHANGED <<fd, sigwinch>>
                ELSE /\ sigwinch' = IF Val(m1.signal_set) THEN "SIG_DFL" ELSE sigwinch
                     /\ mpbar' = r.m
                     /\ fd' = fd \o r.out
                     /\ call' = Call("finish", None, None, r.ok)
    /\ UNCHANGED <<pbar, now>>

\* SIGWINCH while MultiStageProgressBar.handle_resize is the handler.
MultiStage_handle_resize(w) ==
    /\ sigwinch = "mpbar"
    /\ mpbar' = [mpbar EXCEPT !.term_width = w]
    /\ call' = Call("handle_resize", None, Some(w), TRUE)
    /\ UNCHANGED <<pbar, fd, now, sigwinch>>

\* The arguments a MultiStageProgressBar is constructed with.
MultiStageArgs ==
    { [maxvals |-> <<1, 1>>, term_widths |-> None, cascade |-> TRUE],
      [maxvals |-> <<2, 2>>, term_widths |-> None, cascade |-> FALSE],
      [maxvals |-> <<2, 3>>,
       term_widths |-> Some(<<Fraction(1, 3), Fraction(2, 3)>>), cascade |-> TRUE],
      [maxvals |-> <<2, 2, 1>>, term_widths |-> None, cascade |-> TRUE] }

NoProgressBar == [maxval |-> 0]

InitMulti ==
    /\ \E a \in MultiStageArgs :
         \/ /\ \E w \in AttachedWidths :
                  mpbar = MultiStageProgressBar(a.maxvals, a.term_widths, a.cascade,
                                                w, Some(TRUE))
            /\ sigwinch = "mpbar"
         \/ /\ mpbar = MultiStageProgressBar(a.maxvals, a.term_widths, a.cascade,
                                             DefaultWidth, None)
            /\ sigwinch = "SIG_DFL"
    /\ pbar = NoProgressBar
    /\ fd = <<>>
    /\ now = 0
    /\ call = Call("__init__", None, None, TRUE)

\* The clock stands still in SpecMulti: no branch of MultiStageProgressBar
\* reads start_time or seconds_elapsed.
NextMulti ==
    \/ \E stage \in {None} \cup {Some(s) : s \in Stages} : MultiStage_update(stage)
    \/ MultiStage_start
    \/ \E stage \in Stages : MultiStage_reset_stage(stage, None, None)
    \/ MultiStage_finish
    \/ \E w \in ResizeWidths : MultiStage_handle_resize(w)

SpecMulti == InitMulti /\ [][NextMulti]_vars

\* ------------------------------------------------------------------ MultiStageProgressBar: properties

StageArgs == {None} \cup {Some(s) : s \in Stages}

\* The stage (0-based) an update(stage) call targets.
Target(m, stage) == IF stage = None THEN m.num_stages - 1 ELSE Val(stage)

\* The next default update brings the tracker to its maximum.
ReachesMax(pb) == pb.currval + 1 = pb.maxval

\* The tracker reset_stage puts at stage i (0-based).
Fresh(m, i) == stage_bar(m.maxvals[i + 1], m.titles[i + 1], m.stage_widths[i + 1])

AllAtMax(m) == \A k \in 1..m.num_stages : m._pbars[k].currval = m._pbars[k].maxval

\* Stage i (0-based) went one step forward between m and n: its value grew by
\* one, or it reached its maximum and was replaced by a fresh tracker.
Advanced(m, n, i) ==
    \/ n._pbars[i + 1].currval = m._pbars[i + 1].currval + 1
    \/ /\ i > 0
       /\ ReachesMax(m._pbars[i + 1])
       /\ n._pbars[i + 1] = Fresh(m, i)

\* Stages before i - 1 change only if stage i - 1 reaches its maximum.
CarryFrame(m, n, i) ==
    \A k \in 1..(i - 1) : n._pbars[k] # m._pbars[k] => ReachesMax(m._pbars[i])

\* C4 as stated: with cascade, an update of stage i > 0 that brings the stage
\* to its maximum leaves stage i a fresh tracker at 0 and stage i-1 one step
\* further; earlier stages change only if stage i-1 reaches its maximum.
C4_CarryStep ==
    [][\A stage \in StageArgs :
          LET i == Target(mpbar, stage) IN
          (mpbar.cascade /\ i > 0 /\ ReachesMax(mpbar._pbars[i + 1])
             /\ call'.stage = stage /\ MultiStage_update(stage))
              => /\ mpbar'._pbars[i + 1] = Fresh(mpbar, i)
                 /\ Advanced(mpbar, mpbar', i - 1)
                 /\ CarryFrame(mpbar, mpbar', i)]_vars

\* C4, amended: with cascade, an update of stage i > 0 that does not fail and
\* brings the stage to its maximum either completes the composite, which is
\* then finished with every stage at its maximum, or leaves stage i a fresh
\* tracker at 0 and stage i-1 one step further, earlier stages changing only
\* if stage i-1 reaches its maximum.
C4_CarryStepOrCompletion ==
    [][\A stage \in StageArgs :
          LET i == Target(mpbar, stage) IN
          (mpbar.cascade /\ i > 0 /\ ReachesMax(mpbar._pbars[i + 1])
             /\ call'.stage = stage /\ call'.ok /\ MultiStage_update(stage))
              => \/ mpbar'.finished /\ AllAtMax(mpbar')
                 \/ /\ mpbar'._pbars[i + 1] = Fresh(mpbar, i)
                    /\ mpbar'._pbars[i + 1].currval = 0
                    /\ Advanced(mpbar, mpbar', i - 1)
                    /\ CarryFrame(mpbar, mpbar', i)]_vars

\* maxvals = [2,3]: the third update(stage=1) left stage 1 at 0 and stage 0 at 1.
C4_Witness ==
    /\ mpbar.num_stages = 2 /\ mpbar.cascade
    /\ mpbar.maxvals = <<2, 3>>
    /\ call.op = "update" /\ call.ok /\ call.stage = Some(1)
    /\ Len(fd) = 3
    /\ mpbar._pbars[2].currval = 0 /\ ~mpbar._pbars[2].finished
    /\ mpbar._pbars[1].currval = 1
    /\ ~mpbar.finished

\* C5 as stated: without cascade, an update of stage i > 0 changes no other
\* stage, and a stage that reaches its maximum stays there.
C5_NoCascadeFrame ==
    [][\A stage \in StageArgs :
          LET i == Target(mpbar, stage) IN
          (~mpbar.cascade /\ i > 0 /\ call'.stage = stage /\ MultiStage_update(stage))
              => /\ \A k \in 1..mpbar.num_stages :
                       k # i + 1 => mpbar'._pbars[k] = mpbar._pbars[k]
                 /\ ReachesMax(mpbar._pbars[i + 1])
                       => mpbar'._pbars[i + 1].currval = mpbar._pbars[i + 1].maxval]_vars

\* C6 as stated, for MultiStageProgressBar: finish() on a finished composite
\* writes nothing and changes no currval; on an unfinished one it writes one
\* line, ended by a newline.
C6_FinishOnce ==
    [][(call'.op = "finish" /\ MultiStage_finish)
         => IF mpbar.finished
            THEN /\ fd' = fd
                 /\ \A k \in 1..mpbar.num_stages :
                       mpbar'._pbars[k].currval = mpbar._pbars[k].currval
            ELSE /\ Len(fd') = Len(fd) + 1
                 /\ fd'[Len(fd')].term = "\n"]_vars

\* The same for ProgressBar.
ProgressBar_FinishOnce ==
    [][(call'.op = "finish" /\ finish)
         => IF pbar.finished
            THEN fd' = fd /\ pbar' = pbar
            ELSE /\ Len(fd') = Len(fd) + 1
                 /\ fd'[Len(fd')].term = "\n"
                 /\ pbar'.finished]_vars

\* C9 as stated: the stage widths sum to term_width.
C9_StageWidthsSum == sum(mpbar.stage_widths) = mpbar.term_width

\* C10 as stated: the composite is finished exactly when the tracker of stage 0
\* is finished at its maximum.
C10_FinishedIffStage0 ==
    mpbar.finished
        <=> (mpbar._pbars[1].finished /\ mpbar._pbars[1].currval = mpbar._pbars[1].maxval)

\* What holds of it: a completed stage 0 means a finished composite.
Stage0CompleteImpliesFinished ==
    (mpbar._pbars[1].finished /\ mpbar._pbars[1].currval = mpbar._pbars[1].maxval)
        => mpbar.finished

\* C11 as stated, for MultiStageProgressBar: constructed without a terminal,
\* the composite has term_width 79 and no resize subscription, and finish()
\* on the unfinished composite completes, leaves it finished and writes the
\* final line, ended by a newline.
C11_FallbackNonFatal ==
    [][(mpbar.signal_set = None /\ ~mpbar.finished
          /\ call'.op = "finish" /\ MultiStage_finish)
         => /\ mpbar.term_width = DefaultWidth
            /\ sigwinch = "SIG_DFL"
            /\ call'.ok
            /\ mpbar'.finished
            /\ Len(fd') = Len(fd) + 1
            /\ fd'[Len(fd')].term = "\n"]_vars

\* The same for ProgressBar, whose __init__ sets signal_set before the try.
ProgressBar_FallbackNonFatal ==
    [][(pbar.term_width = DefaultWidth /\ ~pbar.finished
          /\ call'.op = "finish" /\ finish)
         => /\ ~pbar.signal_set
            /\ sigwinch = "SIG_DFL"
            /\ call'.ok
            /\ pbar'.finished
            /\ Len(fd') = Len(fd) + 1
            /\ fd'[Len(fd')].term = "\n"]_vars

\* ------------------------------------------------------------------ MultiStageProgressBar: construction and reset_stage with arguments

FracAdd(p, q) == Fraction(p[1] * q[2] + q[1] * p[2], p[2] * q[2])

\* sum(term_widths)
RECURSIVE FracSum(_)
FracSum(fs) == IF fs = <<>> THEN Fraction(0, 1) ELSE FracAdd(Head(fs), FracSum(Tail(fs)))

\* "if x:" for an optional list: None and the empty list are false.
Truthy(x) == x # None /\ Val(x) # <<>>

\* MultiStageProgressBar.__init__ with its assertions and those of the
\* ProgressBar constructor: [ok, m], ok = FALSE when one of them fails.
MultiStageProgressBar_init(maxvals, term_widths, titles, cascade, term_width, signal_set) ==
    LET n == Len(maxvals)
        titles_ok == Truthy(titles) => Len(maxvals) = Len(Val(titles))
        widths_ok == Truthy(term_widths)
                        => /\ Len(Val(term_widths)) = Len(maxvals)
                           /\ FracEq(FracSum(Val(term_widths)), Fraction(1, 1))
        maxvals_ok == \A i \in 1..n : maxvals[i] > 0
    IN  IF ~(titles_ok /\ widths_ok /\ maxvals_ok)
        THEN [ok |-> FALSE, m |-> NoMultiStage]
        ELSE LET m0 == MultiStageProgressBar(
                           maxvals, IF Truthy(term_widths) THEN term_widths ELSE None,
                           cascade, term_width, signal_set)
                 ts == IF Truthy(titles) THEN nested_titles(Val(titles)) ELSE m0.titles
             IN  [ok |-> TRUE,
                  m |-> [m0 EXCEPT !.titles = ts,
                                   !._pbars = [i \in 1..n |->
                                       stage_bar(maxvals[i], ts[i], m0.stage_widths[i])]]]

\* The arguments of the constructor: maxvals, term_widths, titles, cascade.
ConstructorArgs ==
    { [maxvals |-> <<1, 2>>, term_widths |-> None,
       titles |-> Some(<<<<"a">>, <<"b">>>>), cascade |-> FALSE],
      [maxvals |-> <<2>>, term_widths |-> Some(<<>>), titles |-> Some(<<>>),
       cascade |-> TRUE],
      [maxvals |-> <<1, 1>>,
       term_widths |-> Some(<<Fraction(-1, 2), Fraction(3, 2)>>), titles |-> None,
       cascade |-> TRUE],
      [maxvals |-> <<0, 1>>, term_widths |-> None, titles |-> None, cascade |-> TRUE],
      [maxvals |-> <<2, -1>>, term_widths |-> None, titles |-> None, cascade |-> FALSE],
      [maxvals |-> <<1, 1>>, term_widths |-> None, titles |-> Some(<<<<"a">>>>),
       cascade |-> TRUE],
      [maxvals |-> <<1, 1>>, term_widths |-> Some(<<Fraction(1, 1)>>), titles |-> None,
       cascade |-> TRUE],
      [maxvals |-> <<1, 1>>,
       term_widths |-> Some(<<Fraction(1, 3), Fraction(1, 3)>>), titles |-> None,
       cascade |-> TRUE] }

\* The maxval argument of reset_stage.
ResetMaxvals == {None, Some(-1), Some(1)}

\* Whether a composite was constructed.
Constructed == mpbar.num_stages > 0

InitMultiArgs ==
    /\ \E a \in ConstructorArgs, w \in AttachedWidths :
         LET r == MultiStageProgressBar_init(a.maxvals, a.term_widths, a.titles,
                                             a.cascade, w, Some(TRUE))
         IN  /\ mpbar = r.m
             /\ call = Call("__init__", None, Some(a), r.ok)
    /\ sigwinch = "mpbar"
    /\ pbar = NoProgressBar
    /\ fd = <<>>
    /\ now = 0

NextMultiArgs ==
    \/ Constructed /\ \E stage \in {None} \cup {Some(s) : s \in Stages} : MultiStage_update(stage)
    \/ Constructed /\ MultiStage_start
    \/ \E stage \in Stages, maxval \in ResetMaxvals :
         MultiStage_reset_stage(stage, maxval, None)
    \/ Constructed /\ MultiStage_finish

SpecMultiArgs == InitMultiArgs /\ [][NextMultiArgs]_vars

\* ------------------------------------------------------------------ MultiStageProgressBar: properties of construction, reset_stage and finish

InRange(pb) == pb.maxval > 0 /\ 0 <= pb.currval /\ pb.currval <= pb.maxval

\* C13: every tracker, the stand-alone ProgressBar and every sub-bar of the
\* composite, has 0 <= currval <= maxval and maxval > 0.
C13_ValueRange ==
    /\ pbar # NoProgressBar => InRange(pbar)
    /\ \A k \in 1..mpbar.num_stages : InRange(mpbar._pbars[k])

\* reset_stage(stage, maxval=-1) failed: maxvals holds -1 for a stage whose
\* tracker stands, advanced, with its old maximum.
C13_Witness ==
    /\ Constructed
    /\ call.op = "reset_stage" /\ ~call.ok /\ call.value = Some(-1)
    /\ \E k \in 1..mpbar.num_stages :
          /\ mpbar.maxvals[k] = -1
          /\ mpbar._pbars[k].currval > 0

\* The arguments C14 names as invalid.
InvalidArgs(a) ==
    \/ \E i \in 1..Len(a.maxvals) : a.maxvals[i] <= 0
    \/ a.titles # None /\ Len(Val(a.titles)) # Len(a.maxvals)
    \/ /\ a.term_widths # None
       /\ \/ Len(Val(a.term_widths)) # Len(a.maxvals)
          \/ \E i \in 1..Len(Val(a.term_widths)) : Val(a.term_widths)[i][1] < 0
          \/ ~FracEq(FracSum(Val(a.term_widths)), Fraction(1, 1))

\* C14 as stated, for MultiStageProgressBar: the constructor fails on invalid
\* arguments and yields no composite.
C14_ConstructionValidated ==
    (call.op = "__init__" /\ InvalidArgs(Val(call.value)))
        => (~call.ok /\ ~Constructed)

\* What holds of it: a non-positive maxval, a non-empty titles list or a
\* non-empty term_widths list of the wrong length, and non-empty term_widths
\* that do not sum to 1 make the constructor fail.
CheckedArgs(a) ==
    \/ \E i \in 1..Len(a.maxvals) : a.maxvals[i] <= 0
    \/ Truthy(a.titles) /\ Len(Val(a.titles)) # Len(a.maxvals)
    \/ /\ Truthy(a.term_widths)
       /\ \/ Len(Val(a.term_widths)) # Len(a.maxvals)
          \/ ~FracEq(FracSum(Val(a.term_widths)), Fraction(1, 1))

ConstructionChecked ==
    call.op = "__init__" => (CheckedArgs(Val(call.value)) <=> ~call.ok)

\* C16 as stated: finish() on an unfinished composite with the terminal
\* attached ends with the composite finished, every sub-bar finished at its
\* maximum, and one line written, ended by a newline.
C16_FinishCompletes ==
    [][(~mpbar.finished /\ mpbar.signal_set # None
          /\ call'.op = "finish" /\ MultiStage_finish)
         => /\ call'.ok
            /\ mpbar'.finished
            /\ \A k \in 1..mpbar.num_stages :
                  /\ mpbar'._pbars[k].finished
                  /\ mpbar'._pbars[k].currval = mpbar'._pbars[k].maxval
            /\ Len(fd') = Len(fd) + 1
            /\ fd'[Len(fd')].term = "\n"]_vars

\* C19: a reset_stage(s) call that returns leaves a fresh tracker at 0 at
\* stage s and, with cascade, at every later stage, and leaves every other
\* tracker and stage_widths as they were.
C19_ResetStageFrame ==
    [][\A s \in Stages :
          (call'.op = "reset_stage" /\ call'.stage = Some(s) /\ call'.ok
             /\ MultiStage_reset_stage(s, call'.value, None))
              => /\ \A k \in 1..mpbar.num_stages :
                       IF k = s + 1 \/ (mpbar.cascade /\ k > s + 1)
                       THEN /\ mpbar'._pbars[k] = Fresh(mpbar', k - 1)
                            /\ mpbar'._pbars[k].currval = 0
                            /\ ~mpbar'._pbars[k].finished
                       ELSE mpbar'._pbars[k] = mpbar._pbars[k]
                 /\ mpbar'.stage_widths = mpbar.stage_widths]_vars

\* reset_stage(1) of three cascading stages: stage 0 keeps its value 1.
C19_Witness ==
    /\ mpbar.num_stages = 3 /\ mpbar.cascade
    /\ call.op = "reset_stage" /\ call.ok /\ call.stage = Some(1)
    /\ mpbar._pbars[1].currval = 1
    /\ mpbar._pbars[2].currval = 0
    /\ mpbar._pbars[3].currval = 0

\* C20: an update(stage) call that does not fail makes at most stage+1 nested
\* calls of update and writes one line, ended by a newline when the composite
\* is finished after the call and by a carriage return otherwise.
C20_OneLinePerUpdate ==
    [][\A stage \in StageArgs :
          (call'.op = "update" /\ call'.stage = stage /\ call'.ok
             /\ MultiStage_update(stage))
              => /\ Len(fd') = Len(fd) + 1
                 /\ SubSeq(fd', 1, Len(fd)) = fd
                 /\ fd'[Len(fd')].term = (IF mpbar'.finished THEN "\n" ELSE "\r")
                 /\ ms_update(mpbar, stage, now).advances <= Target(mpbar, stage) + 1]_vars

\* maxvals = [2,2,1]: the second update() carried through two stages and
\* wrote the second line.
C20_Witness ==
    /\ mpbar.maxvals = <<2, 2, 1>>
    /\ call.op = "update" /\ call.ok /\ call.stage = None
    /\ Len(fd) = 2 /\ AllCR(fd)
    /\ mpbar._pbars[1].currval = 1
    /\ mpbar._pbars[2].currval = 0
    /\ mpbar._pbars[3].currval = 0

\* ------------------------------------------------------------------ MultiStageProgressBar: default updates from construction

\* The maxvals of the composites: up to MaxStages stages of 1..MaxVal steps.
OdometerMaxvals == UNION {[1..n -> 1..MaxVal] : n \in 1..MaxStages}

InitOdometer ==
    /\ \E maxvals \in OdometerMaxvals, w \in AttachedWidths :
         mpbar = MultiStageProgressBar(maxvals, None, TRUE, w, Some(TRUE))
    /\ sigwinch = "mpbar"
    /\ pbar = NoProgressBar
    /\ fd = <<>>
    /\ now = 0
    /\ call = Call("__init__", None, None, TRUE)

NextOdometer == MultiStage_update(None)

SpecOdometer == InitOdometer /\ [][NextOdometer]_vars

RECURSIVE product(_)
product(xs) == IF xs = <<>> THEN 1 ELSE Head(xs) * product(Tail(xs))

\* The digit of k at stage i (1-based) in the mixed radix maxvals.
OdometerDigit(maxvals, k, i) ==
    (k \div product(SubSeq(maxvals, i + 1, Len(maxvals)))) % maxvals[i]

\* C15: after k default update() calls from construction (every one of them
\* wrote one line, so k = Len(fd)), k is at most the product of the maxvals;
\* below it the composite is not finished and the stage values are the digits
\* of k, and at the product the composite is finished.
C15_Odometer ==
    LET k == Len(fd)
        P == product(mpbar.maxvals)
    IN  /\ k <= P
        /\ k < P => /\ ~mpbar.finished
                    /\ \A i \in 1..mpbar.num_stages :
                          mpbar._pbars[i].currval = OdometerDigit(mpbar.maxvals, k, i)
        /\ k = P => mpbar.finished

\* maxvals = [2,2,1] after three update() calls: the stages read 1, 1, 0.
C15_Witness ==
    /\ mpbar.maxvals = <<2, 2, 1>>
    /\ call.op = "update" /\ call.ok
    /\ Len(fd) = 3
    /\ mpbar._pbars[1].currval = 1
    /\ mpbar._pbars[2].currval = 1
    /\ mpbar._pbars[3].currval = 0
    /\ ~mpbar.finished

\* maxvals = [2,2]: the fourth update() call finished the composite.
OdometerFinished ==
    /\ mpbar.maxvals = <<2, 2>>
    /\ Len(fd) = 4
    /\ mpbar.finished

====
